---- MODULE Spec2Model ----
(***************************************************************************)
(* A model of src/main.py: one run of main(), with the call of             *)
(* get_total_production_from_llm() unfolded into its steps                 *)
(* (request, decode, filter, float(), clamp).                              *)
(*                                                                         *)
(* Text is a sequence of characters; a character is a one-element string,  *)
(* and a non-ASCII character is written by its Unicode name.               *)
(* A number is a decimal [m |-> mantissa, e |-> exponent], the value       *)
(* m * 10^e.  Python's float() rounds to the nearest double; for the       *)
(* token lengths explored here (well under 15 significant digits) the      *)
(* comparison with 500 and the equalities checked agree with the exact     *)
(* decimal value.                                                          *)
(***************************************************************************)
EXTENDS Integers, Sequences, FiniteSets, TLC

\* ------------------------------------------------------------------ bounds
\* longest raw model text enumerated exhaustively over Alphabet
MaxLen == 3
\* largest centre count given to the divider on its own
MaxCount == 10

\* ------------------------------------------------------------- characters
AsciiDigits == {"0", "1", "2", "3", "4", "5", "6", "7", "8", "9"}

\* non-ASCII characters of category Nd: str.isdigit() is True and float()
\* reads them as decimal digits (ARABIC-INDIC DIGIT THREE is U+0663)
UnicodeDecimalDigits == {"ARABIC_INDIC_DIGIT_THREE"}

\* characters with Numeric_Type=Digit that are not decimal: str.isdigit()
\* is True, float() rejects them (SUPERSCRIPT TWO is U+00B2)
UnicodeOtherDigits == {"SUPERSCRIPT_TWO"}

isdigit(x) == x \in AsciiDigits \cup UnicodeDecimalDigits \cup UnicodeOtherDigits

IsDecimalDigit(x) == x \in AsciiDigits \cup UnicodeDecimalDigits

DigitValue(x) ==
    CASE x = "0" -> 0 [] x = "1" -> 1 [] x = "2" -> 2 [] x = "3" -> 3
      [] x = "4" -> 4 [] x = "5" -> 5 [] x = "6" -> 6 [] x = "7" -> 7
      [] x = "8" -> 8 [] x = "9" -> 9
      [] x = "ARABIC_INDIC_DIGIT_THREE" -> 3

\* keep, had the period been left out of the test
keep_NoPeriod(x) == isdigit(x)

\* the lambda of line 81
keep(x) == isdigit(x) \/ x = "."

\* Filter, had it stopped at the end of the first numeric token
Filter_FirstRun(s) ==
    IF \A i \in 1..Len(s) : ~keep(s[i]) THEN <<>>
    ELSE LET first == CHOOSE i \in 1..Len(s) :
                          keep(s[i]) /\ \A k \in 1..(i - 1) : ~keep(s[k])
             last == CHOOSE j \in first..Len(s) :
                         /\ \A k \in first..j : keep(s[k])
                         /\ j = Len(s) \/ ~keep(s[j + 1])
         IN SubSeq(s, first, last)

\* ''.join(filter(keep, llm_output))
Filter(s) == SelectSeq(s, keep)

\* ---------------------------------------------------------------- float()
IsPeriod(x) == x = "."

\* float(numeric_str) succeeds: on a token of digits and periods, the
\* literal needs decimal digits only, at most one period, at least one digit
FloatValid(s) ==
    /\ \A i \in 1..Len(s) : IsDecimalDigit(s[i]) \/ s[i] = "."
    /\ Len(SelectSeq(s, IsPeriod)) <= 1
    /\ Len(SelectSeq(s, IsDecimalDigit)) >= 1

RECURSIVE DigitsToInt(_)
DigitsToInt(s) ==
    IF s = <<>> THEN 0
    ELSE 10 * DigitsToInt(SubSeq(s, 1, Len(s) - 1)) + DigitValue(s[Len(s)])

\* number of characters after the period (0 when there is none)
FracLen(s) ==
    IF \E i \in 1..Len(s) : s[i] = "."
    THEN Len(s) - (CHOOSE i \in 1..Len(s) : s[i] = ".")
    ELSE 0

FloatValue(s) ==
    [m |-> DigitsToInt(SelectSeq(s, IsDecimalDigit)), e |-> 0 - FracLen(s)]

\* ---------------------------------------------------------------- decimals
RECURSIVE Pow10(_)
Pow10(n) == IF n <= 0 THEN 1 ELSE 10 * Pow10(n - 1)

Dec(n) == [m |-> n, e |-> 0]

\* total_value before the assignment of line 85
None == [m |-> 0 - 1, e |-> 0]

\* v > c for a decimal v with e <= 0 and an integer c
GreaterThan(v, c) == v.m > c * Pow10(0 - v.e)

\* canonical form: no trailing zero in the mantissa
RECURSIVE Norm(_)
Norm(v) ==
    IF v.m = 0 THEN [m |-> 0, e |-> 0]
    ELSE IF v.m % 10 = 0 THEN Norm([m |-> v.m \div 10, e |-> v.e + 1])
    ELSE v

\* the safety check of lines 88-90
Ceiling == 500
Fallback == 145

\* Clamp, had the comparison been >=
Clamp_AtCeiling(v) ==
    IF v.m >= Ceiling * Pow10(0 - v.e) THEN Dec(Fallback) ELSE v

\* Clamp, had the safety check been left out
Clamp_None(v) == v

Clamp(v) == IF GreaterThan(v, Ceiling) THEN Dec(Fallback) ELSE v

\* ToTons, had the factor been 1_000
ToTons_Thousand(v) == [m |-> v.m, e |-> v.e + 3]

\* line 120: total_production_million * 1_000_000
ToTons(v) == [m |-> v.m, e |-> v.e + 6]

\* lines 120-121: the quotient (m * 10^e) / d
per_center(total, n) == [m |-> ToTons(total).m, e |-> ToTons(total).e, d |-> n]

\* --------------------------------------------------------------- the sheets
\* Sheet 2 (df_commods): Name, HS Code
df_commods == << [Name |-> "Rice", HSCode |-> 1006],
                 [Name |-> "Wheat", HSCode |-> 1001],
                 [Name |-> "Maize", HSCode |-> 1005] >>

\* Sheet 1 (df_centres): HS Code, Centers
df_centres == << [HSCode |-> 1006, Centers |-> 1], [HSCode |-> 1006, Centers |-> 2],
                 [HSCode |-> 1006, Centers |-> 3], [HSCode |-> 1006, Centers |-> 4],
                 [HSCode |-> 1006, Centers |-> 5], [HSCode |-> 1006, Centers |-> 6],
                 [HSCode |-> 1006, Centers |-> 7], [HSCode |-> 1006, Centers |-> 8],
                 [HSCode |-> 1006, Centers |-> 9], [HSCode |-> 1006, Centers |-> 10],
                 [HSCode |-> 1001, Centers |-> 11], [HSCode |-> 1001, Centers |-> 12] >>

\* what the user may type at the prompt
Typed == {"rice", " Rice ", "WHEAT", "maize", "cocoa"}

\* str.strip().lower() / str.lower() on the strings that occur
StripLower(s) ==
    CASE s \in {"rice", " Rice ", "Rice"} -> "rice"
      [] s \in {"WHEAT", "Wheat"} -> "wheat"
      [] s \in {"maize", "Maize"} -> "maize"
      [] OTHER -> s

\* ------------------------------------------------------------ the inputs
\* characters of the exhaustively enumerated texts: digits, the period,
\* a letter, the minus sign and the two kinds of non-ASCII digit
Alphabet == {"0", "1", "5", "6", ".", "t", "-",
             "ARABIC_INDIC_DIGIT_THREE", "SUPERSCRIPT_TWO"}

\* "Approximately 140-150" with an en dash (U+2013)
TextApprox == <<"A", "p", "p", "r", "o", "x", "i", "m", "a", "t", "e", "l", "y", " ", "1", "4", "0", "EN_DASH", "1", "5", "0">>

\* "146.5 million tons"
TextTons == <<"1", "4", "6", ".", "5", " ", "m", "i", "l", "l", "i", "o", "n", " ", "t", "o", "n", "s">>

\* "140.1 and 5.0"
TextTwoDecimals == <<"1", "4", "0", ".", "1", " ", "a", "n", "d", " ", "5", ".", "0">>

\* "-12,500.75 t"
TextNegative == <<"-", "1", "2", ",", "5", "0", "0", ".", "7", "5", " ", "t">>

SpecExamples == {TextApprox, TextTons, TextTwoDecimals, TextNegative}

Texts == UNION {[1..n -> Alphabet] : n \in 0..MaxLen} \cup SpecExamples

\* response.status_code
StatusCodes == {200, 401, 500}

\* shapes of response.text, by what lines 66-77 do with them
BodyKinds == {"not_json", "error", "no_choices", "empty_choices",
              "no_message", "no_content", "null_content", "ok"}

\* llm_output when the content field is JSON null
NoneText == <<"None_object">>

Bodies == {[kind |-> k, content |-> <<>>] : k \in BodyKinds \ {"ok"}}
          \cup {[kind |-> "ok", content |-> t] : t \in Texts}

\* totals given to the divider on its own
Totals == {Dec(0), Dec(1), Dec(145), Dec(500), [m |-> 1465, e |-> 0 - 1], Dec(145000000)}

\* ------------------------------------------------------------------- state
VARIABLES
    pc,                        \* position in main() / get_total_production_from_llm()
    exc,                       \* the exception that ended the run, "" if none
    stdout,                    \* the kinds of line printed so far
    posts,                     \* number of requests.post calls made
    commod_name,
    hs_code,
    num_centres,
    response,                  \* [status_code, body]
    llm_output,
    numeric_str,
    total_value,               \* local of get_total_production_from_llm
    total_production_million,
    total_production_tons,
    per_centre_production

vars == <<pc, exc, stdout, posts, commod_name, hs_code, num_centres, response,
          llm_output, numeric_str, total_value, total_production_million,
          total_production_tons, per_centre_production>>

NoResponse == [status_code |-> 0, body |-> [kind |-> "none", content |-> <<>>]]

NoQuotient == [m |-> 0 - 1, e |-> 0, d |-> 1]

Init ==
    /\ pc = "input"
    /\ exc = ""
    /\ stdout = {}
    /\ posts = 0
    /\ commod_name = ""
    /\ hs_code = 0
    /\ num_centres = 0
    /\ response = NoResponse
    /\ llm_output = <<>>
    /\ numeric_str = <<>>
    /\ total_value = None
    /\ total_production_million = None
    /\ total_production_tons = None
    /\ per_centre_production = NoQuotient

\* an uncaught exception ends the run
Raise(e) == pc' = "done" /\ exc' = e

\* ------------------------------------------------------------------ main()
\* line 98
Main_Input ==
    /\ pc = "input"
    /\ \E typed \in Typed : commod_name' = StripLower(typed)
    /\ pc' = "lookup"
    /\ UNCHANGED <<exc, stdout, posts, hs_code, num_centres, response, llm_output,
                   numeric_str, total_value, total_production_million,
                   total_production_tons, per_centre_production>>

\* lines 101-105
Main_Lookup ==
    /\ pc = "lookup"
    /\ LET match(r) == StripLower(r.Name) = commod_name
           hs_row == SelectSeq(df_commods, match)
       IN IF hs_row = <<>>
          THEN /\ stdout' = stdout \cup {"not_found"}
               /\ pc' = "done"
               /\ UNCHANGED hs_code
          ELSE /\ hs_code' = hs_row[1].HSCode
               /\ pc' = "centres"
               /\ UNCHANGED stdout
    /\ UNCHANGED <<exc, posts, commod_name, num_centres, response, llm_output,
                   numeric_str, total_value, total_production_million,
                   total_production_tons, per_centre_production>>

\* lines 108-114
Main_Centres ==
    /\ pc = "centres"
    /\ LET match(r) == r.HSCode = hs_code
           df_filtered == SelectSeq(df_centres, match)
       IN /\ num_centres' = Len(df_filtered)
          /\ IF Len(df_filtered) = 0
             THEN /\ stdout' = stdout \cup {"no_centres"}
                  /\ pc' = "done"
             ELSE /\ pc' = "request"
                  /\ UNCHANGED stdout
    /\ UNCHANGED <<exc, posts, commod_name, hs_code, response, llm_output,
                   numeric_str, total_value, total_production_million,
                   total_production_tons, per_centre_production>>

\* ------------------------------------------- get_total_production_from_llm()
\* lines 62-64: the blocking POST; the reply is whatever the server sends
LLM_Request ==
    /\ pc = "request"
    /\ \E s \in StatusCodes, b \in Bodies : response' = [status_code |-> s, body |-> b]
    /\ posts' = posts + 1
    /\ stdout' = stdout \cup {"status", "response_text"}
    /\ pc' = "decode"
    /\ UNCHANGED <<exc, commod_name, hs_code, num_centres, llm_output, numeric_str,
                   total_value, total_production_million, total_production_tons,
                   per_centre_production>>

\* lines 66-78
LLM_Decode ==
    /\ pc = "decode"
    /\ LET k == response.body.kind
       IN CASE k = "not_json" ->
                 Raise("ValueError_json") /\ UNCHANGED <<llm_output, stdout>>
            [] k = "error" ->
                 Raise("ValueError_api_error") /\ UNCHANGED <<llm_output, stdout>>
            [] k = "no_choices" ->
                 Raise("ValueError_no_choices") /\ UNCHANGED <<llm_output, stdout>>
            [] k = "empty_choices" ->
                 Raise("IndexError") /\ UNCHANGED <<llm_output, stdout>>
            [] k \in {"no_message", "no_content"} ->
                 Raise("KeyError") /\ UNCHANGED <<llm_output, stdout>>
            [] k = "null_content" ->
                 /\ llm_output' = NoneText
                 /\ stdout' = stdout \cup {"raw_output"}
                 /\ pc' = "filter"
                 /\ UNCHANGED exc
            [] k = "ok" ->
                 /\ llm_output' = response.body.content
                 /\ stdout' = stdout \cup {"raw_output"}
                 /\ pc' = "filter"
                 /\ UNCHANGED exc
    /\ UNCHANGED <<posts, commod_name, hs_code, num_centres, response, numeric_str,
                   total_value, total_production_million, total_production_tons,
                   per_centre_production>>

\* LLM_Extract, had the empty token not been tested
LLM_Extract_NoEmptyCheck ==
    /\ pc = "filter"
    /\ IF llm_output = NoneText
       THEN Raise("TypeError") /\ UNCHANGED numeric_str
       ELSE /\ numeric_str' = Filter(llm_output)
            /\ pc' = "parse"
            /\ UNCHANGED exc
    /\ UNCHANGED <<stdout, posts, commod_name, hs_code, num_centres, response,
                   llm_output, total_value, total_production_million,
                   total_production_tons, per_centre_production>>

\* lines 81-83
LLM_Extract ==
    /\ pc = "filter"
    /\ IF llm_output = NoneText
       THEN Raise("TypeError") /\ UNCHANGED numeric_str
       ELSE /\ numeric_str' = Filter(llm_output)
            /\ IF Filter(llm_output) = <<>>
               THEN Raise("ValueError_no_numeric")
               ELSE pc' = "parse" /\ UNCHANGED exc
    /\ UNCHANGED <<stdout, posts, commod_name, hs_code, num_centres, response,
                   llm_output, total_value, total_production_million,
                   total_production_tons, per_centre_production>>

\* LLM_Parse, had the failure of float() been caught and the fallback used
LLM_Parse_Recover ==
    /\ pc = "parse"
    /\ total_value' = IF FloatValid(numeric_str)
                      THEN FloatValue(numeric_str) ELSE Dec(Fallback)
    /\ pc' = "clamp"
    /\ UNCHANGED <<exc, stdout, posts, commod_name, hs_code, num_centres, response,
                   llm_output, numeric_str, total_production_million,
                   total_production_tons, per_centre_production>>

\* line 85
LLM_Parse ==
    /\ pc = "parse"
    /\ IF FloatValid(numeric_str)
       THEN /\ total_value' = FloatValue(numeric_str)
            /\ pc' = "clamp"
            /\ UNCHANGED exc
       ELSE /\ Raise("ValueError_float")
            /\ UNCHANGED total_value
    /\ UNCHANGED <<stdout, posts, commod_name, hs_code, num_centres, response,
                   llm_output, numeric_str, total_production_million,
                   total_production_tons, per_centre_production>>

\* lines 88-92, and the assignment of line 117
LLM_Clamp ==
    /\ pc = "clamp"
    /\ total_value' = Clamp(total_value)
    /\ total_production_million' = Clamp(total_value)
    /\ stdout' = IF Clamp(total_value) # total_value
                 THEN stdout \cup {"warning"} ELSE stdout
    /\ pc' = "divide"
    /\ UNCHANGED <<exc, posts, commod_name, hs_code, num_centres, response,
                   llm_output, numeric_str, total_production_tons,
                   per_centre_production>>

\* ------------------------------------------------------- main(), continued
\* lines 120-121
Main_Divide ==
    /\ pc = "divide"
    /\ total_production_tons' = ToTons(total_production_million)
    /\ per_centre_production' = per_center(total_production_million, num_centres)
    /\ pc' = "summary"
    /\ UNCHANGED <<exc, stdout, posts, commod_name, hs_code, num_centres, response,
                   llm_output, numeric_str, total_value, total_production_million>>

\* lines 124-131
Main_Summary ==
    /\ pc = "summary"
    /\ stdout' = stdout \cup {"summary"}
    /\ pc' = "done"
    /\ UNCHANGED <<exc, posts, commod_name, hs_code, num_centres, response,
                   llm_output, numeric_str, total_value, total_production_million,
                   total_production_tons, per_centre_production>>

Next ==
    \/ Main_Input
    \/ Main_Lookup
    \/ Main_Centres
    \/ LLM_Request
    \/ LLM_Decode
    \/ LLM_Extract
    \/ LLM_Parse
    \/ LLM_Clamp
    \/ Main_Divide
    \/ Main_Summary

Spec == Init /\ [][Next]_vars

\* ------------------------------------------------- the divider on its own
\* lines 120-121 applied to a total and a centre count of the caller's choice
InitDivider ==
    /\ pc = "divide"
    /\ exc = ""
    /\ stdout = {}
    /\ posts = 0
    /\ commod_name = ""
    /\ hs_code = 0
    /\ num_centres \in 1..MaxCount
    /\ response = NoResponse
    /\ llm_output = <<>>
    /\ numeric_str = <<>>
    /\ total_value = None
    /\ total_production_million \in Totals
    /\ total_production_tons = None
    /\ per_centre_production = NoQuotient

NextDivider == Main_Divide \/ Main_Summary

SpecDivider == InitDivider /\ [][NextDivider]_vars

\* ===================================================================
\* Properties
\* ===================================================================
\* a digit character, of any script
DigitChars == AsciiDigits \cup UnicodeDecimalDigits \cup UnicodeOtherDigits

IsNumChar(c) == c \in DigitChars \cup {"."}

\* line 81 has been executed on a text
ExtractionRan ==
    \/ pc \in {"parse", "clamp", "divide", "summary"}
    \/ pc = "done" /\ exc \in {"ValueError_no_numeric", "ValueError_float"}
    \/ pc = "done" /\ "summary" \in stdout

\* get_total_production_from_llm has returned a value to main
Returned ==
    \/ pc \in {"divide", "summary"}
    \/ pc = "done" /\ "summary" \in stdout

\* the call has neither returned nor substituted anything
NoEstimate ==
    /\ total_value = None
    /\ total_production_million = None
    /\ "warning" \notin stdout
    /\ "summary" \notin stdout

\* ---------------------------------------------------------------- C1
\* C1: when the raw model text contains no digit and no period (the empty
\* text included), extraction ends with the "LLM did not return a numeric
\* value" error; nothing is returned and the fallback 145 is not substituted.
C1_NoNumericContent ==
    (/\ pc \notin {"input", "lookup", "centres", "request", "decode", "filter"}
     /\ "raw_output" \in stdout
     /\ llm_output # NoneText
     /\ \A i \in 1..Len(llm_output) : ~IsNumChar(llm_output[i]))
    => (pc = "done" /\ exc = "ValueError_no_numeric" /\ NoEstimate)

C1_Witness ==
    /\ pc = "done"
    /\ exc = "ValueError_no_numeric"
    /\ llm_output = <<"t", "-", "t">>

\* ---------------------------------------------------------------- C2
\* the positions i..j of t hold a plain decimal (ASCII digits, at most one
\* period, at least one digit) and every other character is unit text
IsPlainDecimalAt(t, i, j) ==
    /\ i <= j
    /\ \A k \in 1..Len(t) : (k < i \/ k > j) => ~IsNumChar(t[k])
    /\ \A k \in i..j : t[k] \in AsciiDigits \cup {"."}
    /\ Cardinality({k \in i..j : t[k] = "."}) <= 1
    /\ \E k \in i..j : t[k] \in AsciiDigits

\* the value of the decimal written at i..j, by place value
RECURSIVE PlaceSum(_, _, _, _)
PlaceSum(t, k, j, acc) ==
    IF k > j THEN acc
    ELSE IF t[k] = "." THEN PlaceSum(t, k + 1, j, acc)
    ELSE PlaceSum(t, k + 1, j, 10 * acc + DigitValue(t[k]))

DecimalAt(t, i, j) ==
    [m |-> PlaceSum(t, i, j, 0),
     e |-> 0 - Cardinality({k \in i..j : \E p \in i..j : t[p] = "." /\ p < k})]

AtMostCeiling(v) == v.m <= 500 * Pow10(0 - v.e)

\* C2: for a text that is a plain decimal with unit text around it
\* ("146.5 million tons"), whose value is at most 500, extraction does not
\* fail and returns exactly that decimal's value.
C2_PlainDecimalReturned ==
    \A i, j \in 1..Len(llm_output) :
        (/\ ExtractionRan
         /\ IsPlainDecimalAt(llm_output, i, j)
         /\ AtMostCeiling(DecimalAt(llm_output, i, j)))
        => /\ exc = ""
           /\ numeric_str = SubSeq(llm_output, i, j)
           /\ Returned => Norm(total_production_million)
                            = Norm(DecimalAt(llm_output, i, j))
           /\ Returned /\ llm_output = TextTons
                => total_production_million = [m |-> 1465, e |-> 0 - 1]

C2_Witness ==
    /\ pc = "done"
    /\ "summary" \in stdout
    /\ llm_output = TextTons
    /\ total_production_million = [m |-> 1465, e |-> 0 - 1]

\* ---------------------------------------------------------------- C3
\* C3: the returned value is 145 exactly when the parsed value is strictly
\* greater than 500, and is the parsed value otherwise ("600" gives 145,
\* "0" gives 0, "500" gives 500); the warning is printed on the same condition.
C3_ClampAboveCeiling ==
    Returned =>
        LET v == FloatValue(numeric_str)
            above == v.m > 500 * Pow10(0 - v.e)
        IN /\ above => total_production_million = Dec(145)
           /\ ~above => total_production_million = v
           /\ above <=> "warning" \in stdout
           /\ numeric_str = <<"6", "0", "0">> => total_production_million = Dec(145)
           /\ numeric_str = <<"0">> => total_production_million = Dec(0)
           /\ numeric_str = <<"5", "0", "0">> => total_production_million = Dec(500)

C3_Witness ==
    /\ Returned
    /\ llm_output = <<"6", "0", "0">>
    /\ total_production_million = Dec(145)
    /\ "warning" \in stdout

\* ---------------------------------------------------------------- C4
\* C4: whatever the text, a returned estimate v satisfies 0 <= v <= 500.
C4_EstimateInRange ==
    Returned =>
        /\ total_production_million.m >= 0
        /\ total_production_million.e <= 0
        /\ total_production_million.m <= 500 * Pow10(0 - total_production_million.e)

C4_Witness ==
    /\ Returned
    /\ llm_output = TextNegative
    /\ total_production_million = Dec(145)

\* ---------------------------------------------------------------- C5
\* a non-empty token of digits and periods that float() does not accept
Malformed(t) ==
    /\ t # <<>>
    /\ \/ Cardinality({k \in 1..Len(t) : t[k] = "."}) > 1
       \/ ~\E k \in 1..Len(t) : t[k] \in AsciiDigits \cup UnicodeDecimalDigits
       \/ \E k \in 1..Len(t) : t[k] \in UnicodeOtherDigits

\* C5: once float() has been applied to a non-empty token that is not a valid
\* decimal literal, the run has ended with float()'s error: nothing is
\* returned, the clamp is not reached and no fallback is substituted.
C5_MalformedNumberFatal ==
    (ExtractionRan /\ pc # "parse" /\ Malformed(numeric_str))
    => (pc = "done" /\ exc = "ValueError_float" /\ NoEstimate)

C5_Witness ==
    /\ pc = "done"
    /\ exc = "ValueError_float"
    /\ llm_output = TextTwoDecimals
    /\ numeric_str = <<"1", "4", "0", ".", "1", "5", ".", "0">>

\* ---------------------------------------------------------------- C6
\* the reply is a transport or authentication failure
FailedResponse ==
    /\ response # NoResponse
    /\ \/ response.status_code \notin 200..299
       \/ response.body.kind \in {"not_json", "no_choices", "empty_choices",
                                  "no_message", "no_content"}

\* C6: after a non-success status, a body that is not JSON, or a body without
\* the choices/message/content fields, the numeric extraction never runs.
C6_FailedResponseNotExtracted ==
    FailedResponse => (~ExtractionRan /\ numeric_str = <<>> /\ NoEstimate)

\* ---------------------------------------------------------------- C7
\* C7: a failure is terminal where it occurs: no request and no division
\* when the name is not found or no centre matches; at most one request per
\* run; no summary after a failed request or extraction; a summary only when
\* lookup, centre count, request and extraction all succeeded.
C7_FailureIsTerminal ==
    /\ posts <= 1
    /\ ("not_found" \in stdout \/ "no_centres" \in stdout)
         => (posts = 0 /\ per_centre_production = NoQuotient /\ "summary" \notin stdout)
    /\ (FailedResponse \/ exc # "") => "summary" \notin stdout
    /\ "summary" \in stdout
         => /\ hs_code # 0
            /\ num_centres > 0
            /\ posts = 1
            /\ ~FailedResponse
            /\ exc = ""
            /\ total_production_million # None

\* ---------------------------------------------------------------- C8
\* C8: the token handed to float() holds ASCII digits and periods only, in
\* their order in the text.
C8_TokenAsciiOnly ==
    \A i \in 1..Len(numeric_str) : numeric_str[i] \in AsciiDigits \cup {"."}

\* ---------------------------------------------------------------- C9
\* the numeric tokens of t: its maximal runs of digits and periods
RunStarts(t) ==
    {i \in 1..Len(t) : IsNumChar(t[i]) /\ (i = 1 \/ ~IsNumChar(t[i - 1]))}

RunEnd(t, i) ==
    CHOOSE j \in i..Len(t) :
        /\ \A k \in i..j : IsNumChar(t[k])
        /\ j = Len(t) \/ ~IsNumChar(t[j + 1])

RunAt(t, i) == SubSeq(t, i, RunEnd(t, i))

RECURSIVE Fuse(_, _)
Fuse(t, S) ==
    IF S = {} THEN <<>>
    ELSE LET i == CHOOSE x \in S : \A y \in S : x <= y
         IN RunAt(t, i) \o Fuse(t, S \ {i})

\* C9: for a text with several numeric tokens, float() is given the single
\* token made of all of them in order, never one of them alone; the call
\* returns the clamped value of that fused token, or fails with float()'s
\* error when the fused token is not a decimal literal.  "Approximately
\* 140-150" gives the token "140150", parsed as 140150, returned as 145.
C9_FusedToken ==
    (ExtractionRan /\ Cardinality(RunStarts(llm_output)) >= 2)
    => /\ numeric_str = Fuse(llm_output, RunStarts(llm_output))
       /\ \A i \in RunStarts(llm_output) : numeric_str # RunAt(llm_output, i)
       /\ pc # "parse" =>
            IF Malformed(numeric_str)
            THEN pc = "done" /\ exc = "ValueError_float"
            ELSE /\ exc = ""
                 /\ pc = "clamp" => total_value = FloatValue(numeric_str)
                 /\ Returned => total_production_million
                                  = (IF FloatValue(numeric_str).m
                                          > 500 * Pow10(0 - FloatValue(numeric_str).e)
                                     THEN Dec(145) ELSE FloatValue(numeric_str))
       /\ llm_output = TextApprox =>
            /\ numeric_str = <<"1", "4", "0", "1", "5", "0">>
            /\ pc = "clamp" => total_value = Dec(140150)
            /\ Returned => total_production_million = Dec(145)

C9_Witness ==
    /\ pc = "done"
    /\ "summary" \in stdout
    /\ llm_output = TextApprox
    /\ numeric_str = <<"1", "4", "0", "1", "5", "0">>
    /\ total_production_million = Dec(145)

\* ---------------------------------------------------------------- C10
\* the division of lines 120-121 has been done
Divided == pc \in {"summary", "done"} /\ per_centre_production # NoQuotient

\* the quotient q equals the integer k
QuotientIs(q, k) == Norm([m |-> q.m, e |-> q.e]) = Norm(Dec(k * q.d))

\* the quotient times the centre count is the total times 1,000,000
QuotientOfMillions ==
    /\ per_centre_production.d = num_centres
    /\ Norm([m |-> per_centre_production.m, e |-> per_centre_production.e - 6])
         = Norm(total_production_million)

\* C10 as stated: the quotient is total * 1,000,000 / center_count, and
\* per_center(145000000, 10) is 14,500,000.
C10_Original ==
    Divided =>
        /\ QuotientOfMillions
        /\ (total_production_million = Dec(145000000) /\ num_centres = 10)
             => QuotientIs(per_centre_production, 14500000)

\* C10 (amended): the quotient is total * 1,000,000 / center_count for every
\* center_count >= 1, and per_center(145, 10) is 14,500,000.
C10_PerCenter ==
    Divided =>
        /\ num_centres >= 1
        /\ QuotientOfMillions
        /\ (total_production_million = Dec(145) /\ num_centres = 10)
             => QuotientIs(per_centre_production, 14500000)

C10_Witness ==
    /\ Divided
    /\ total_production_million = Dec(145)
    /\ num_centres = 10
    /\ QuotientIs(per_centre_production, 14500000)

====
